---- MODULE Spec2Model ----
(***************************************************************************)
(* Model of ProductionManager.py: the zeroconf-driven output device plugin *)
(* (ProductionManagerDevicePlugin), the output device (ProductionManager)  *)
(* and the background job that writes a UFP and posts it                   *)
(* (CreateUfpAndPostJob).                                                  *)
(***************************************************************************)
EXTENDS Integers, Sequences, FiniteSets, TLC

(* ---------------------------------------------------------------------- *)
(* Bounds                                                                 *)
(* ---------------------------------------------------------------------- *)
\* number of past plugin calls kept in the call history
HistLen == 3
\* number of upload jobs that can be created
MaxJobs == 1
\* longest list returned by getSupportedFileTypesWrite()
MaxFileTypes == 2

(* ---------------------------------------------------------------------- *)
(* Program constants                                                      *)
(* ---------------------------------------------------------------------- *)
UFPMIMETYPE == "application/x-ufp"
IunoServiceName == "IUNO Production Manager._http._tcp.local."
IunoDeviceId == "IunoProductionManager"
HTTP_CREATED == 201
PostUrl == "http://192.168.178.22:3042/api/localobjects"
\* the file field's name 'foobar.ufp', as stem and extension
PostFile == [stem |-> "foobar", ext |-> "ufp"]

(* ---------------------------------------------------------------------- *)
(* Input domains                                                          *)
(* ---------------------------------------------------------------------- *)
ServiceNames == {IunoServiceName, "Some Printer._http._tcp.local."}
ServiceStateChange == {"Added", "Removed", "Updated"}
MimeTypes == {UFPMIMETYPE, "text/x-gcode"}
FileTypes == [mime_type : MimeTypes]
FileTypeLists == UNION {[1..n -> FileTypes] : n \in 0..MaxFileTypes}
Writers == {"None", "ufp_writer"}
StatusCodes == {200, 201, 400, 500}
ResponseTexts == {"", "response body"}
WriterInformation == "writer information"
TransportErrors == {"ConnectionError", "Timeout"}
Jobs == 1..MaxJobs

VARIABLES
    zeroconf,       \* self.zeroconf: "unset" (attribute missing), "open", "closed"
    iunoAvailable,  \* self.iunoAvailable (read only once start() has set it)
    registry,       \* ids held by the output device manager
    net,            \* last matching Added/Removed handled since start(), or "none"
    hist,           \* the last HistLen plugin calls, oldest first
    jobs,           \* the CreateUfpAndPostJob objects
    rw,             \* the last requestWrite call: what it was given and its outcome
    threads         \* the browser thread inside the handler, the host thread inside stop()

vars == <<zeroconf, iunoAvailable, registry, net, hist, jobs, rw, threads>>
watcherVars == <<zeroconf, iunoAvailable, registry, net, hist>>
targetVars == <<jobs, rw>>

(* ---------------------------------------------------------------------- *)
(* Output device manager: a collection keyed by device id                 *)
(* ---------------------------------------------------------------------- *)
addOutputDevice(reg, id) == reg \cup {id}
removeOutputDevice(reg, id) == reg \ {id}

(* ---------------------------------------------------------------------- *)
(* ProductionManagerDevicePlugin                                          *)
(* ---------------------------------------------------------------------- *)
Call(op, name, raised, calls, availBefore, regBefore) ==
    [op |-> op, name |-> name, raised |-> raised, calls |-> calls,
     availBefore |-> availBefore, regBefore |-> regBefore]

Push(h, e) == IF Len(h) < HistLen THEN Append(h, e) ELSE Append(Tail(h), e)

\* start(): a new Zeroconf session, the flag set to False, a ServiceBrowser
\* on the handler, and one addOutputDevice(ProductionManager()).
start(reg) ==
    [zeroconf |-> "open", avail |-> FALSE,
     reg |-> addOutputDevice(reg, IunoDeviceId), calls |-> <<"add">>]

\* stop(): self.zeroconf.close() first; the attribute exists only once
\* start() has run.  Then removeOutputDevice if the flag is set; the flag
\* itself is left as it is.
stop(zc, avail, reg) ==
    IF zc = "unset"
    THEN [raised |-> "AttributeError", zeroconf |-> zc, reg |-> reg, calls |-> <<>>]
    ELSE [raised |-> "none", zeroconf |-> "closed",
          reg |-> IF avail THEN removeOutputDevice(reg, IunoDeviceId) ELSE reg,
          calls |-> IF avail THEN <<"remove">> ELSE <<>>]

\* Variant: the Added branch registers the device whatever the flag says.
on_service_state_change_alwaysAdd(avail, reg, name, state_change) ==
    IF name = IunoServiceName
    THEN IF state_change = "Added"
         THEN [avail |-> TRUE,
               reg |-> addOutputDevice(reg, IunoDeviceId),
               calls |-> <<"add">>]
         ELSE IF state_change = "Removed"
         THEN [avail |-> FALSE,
               reg |-> IF avail THEN removeOutputDevice(reg, IunoDeviceId) ELSE reg,
               calls |-> IF avail THEN <<"remove">> ELSE <<>>]
         ELSE [avail |-> avail, reg |-> reg, calls |-> <<>>]
    ELSE [avail |-> avail, reg |-> reg, calls |-> <<>>]

\* Variant: the Removed branch tests the flag the wrong way round.
on_service_state_change_removeInverted(avail, reg, name, state_change) ==
    IF name = IunoServiceName
    THEN IF state_change = "Added"
         THEN [avail |-> TRUE,
               reg |-> IF ~avail THEN addOutputDevice(reg, IunoDeviceId) ELSE reg,
               calls |-> IF ~avail THEN <<"add">> ELSE <<>>]
         ELSE IF state_change = "Removed"
         THEN [avail |-> FALSE,
               reg |-> IF ~avail THEN removeOutputDevice(reg, IunoDeviceId) ELSE reg,
               calls |-> IF ~avail THEN <<"remove">> ELSE <<>>]
         ELSE [avail |-> avail, reg |-> reg, calls |-> <<>>]
    ELSE [avail |-> avail, reg |-> reg, calls |-> <<>>]

\* Variant: the handler does not look at the advertised name.
on_service_state_change_anyName(avail, reg, name, state_change) ==
    IF state_change = "Added"
    THEN [avail |-> TRUE,
          reg |-> IF ~avail THEN addOutputDevice(reg, IunoDeviceId) ELSE reg,
          calls |-> IF ~avail THEN <<"add">> ELSE <<>>]
    ELSE IF state_change = "Removed"
    THEN [avail |-> FALSE,
          reg |-> IF avail THEN removeOutputDevice(reg, IunoDeviceId) ELSE reg,
          calls |-> IF avail THEN <<"remove">> ELSE <<>>]
    ELSE [avail |-> avail, reg |-> reg, calls |-> <<>>]

on_service_state_change(avail, reg, name, state_change) ==
    IF name = IunoServiceName
    THEN IF state_change = "Added"
         THEN [avail |-> TRUE,
               reg |-> IF ~avail THEN addOutputDevice(reg, IunoDeviceId) ELSE reg,
               calls |-> IF ~avail THEN <<"add">> ELSE <<>>]
         ELSE IF state_change = "Removed"
         THEN [avail |-> FALSE,
               reg |-> IF avail THEN removeOutputDevice(reg, IunoDeviceId) ELSE reg,
               calls |-> IF avail THEN <<"remove">> ELSE <<>>]
         ELSE [avail |-> avail, reg |-> reg, calls |-> <<>>]
    ELSE [avail |-> avail, reg |-> reg, calls |-> <<>>]

\* The host calls start() on a plugin that has no open session.
CallStart ==
    /\ zeroconf # "open"
    /\ LET r == start(registry) IN
         /\ zeroconf' = r.zeroconf
         /\ iunoAvailable' = r.avail
         /\ registry' = r.reg
         /\ net' = "none"
         /\ hist' = Push(hist, Call("start", "-", "none", r.calls, iunoAvailable, registry))
    /\ UNCHANGED <<targetVars, threads>>

\* The host calls stop(), in any state of the plugin.
CallStop ==
    /\ LET r == stop(zeroconf, iunoAvailable, registry) IN
         /\ zeroconf' = r.zeroconf
         /\ registry' = r.reg
         /\ hist' = Push(hist, Call("stop", "-", r.raised, r.calls, iunoAvailable, registry))
    /\ UNCHANGED <<iunoAvailable, net>>
    /\ UNCHANGED <<targetVars, threads>>

\* The ServiceBrowser of an open session calls the handler.
DeliverServiceStateChange(name, state_change) ==
    /\ zeroconf = "open"
    /\ LET r == on_service_state_change(iunoAvailable, registry, name, state_change) IN
         /\ iunoAvailable' = r.avail
         /\ registry' = r.reg
         /\ hist' = Push(hist, Call(state_change, name, "none", r.calls, iunoAvailable, registry))
    /\ net' = IF name = IunoServiceName /\ state_change \in {"Added", "Removed"}
              THEN state_change ELSE net
    /\ UNCHANGED zeroconf
    /\ UNCHANGED <<targetVars, threads>>

(* ---------------------------------------------------------------------- *)
(* ProductionManager.requestWrite                                         *)
(* ---------------------------------------------------------------------- *)
EmptyDict == [k \in {} |-> ""]

\* some entry of the list has the UFP mime type
HasUfp(file_types) == \E i \in 1..Len(file_types) : file_types[i].mime_type = UFPMIMETYPE

\* file_type = {}; for ft in file_types: if UFPMIMETYPE == ft["mime_type"]: take it, break
SelectFileType(file_types) ==
    IF HasUfp(file_types)
    THEN file_types[CHOOSE i \in 1..Len(file_types) :
                      /\ file_types[i].mime_type = UFPMIMETYPE
                      /\ \A k \in 1..(i - 1) : file_types[k].mime_type # UFPMIMETYPE]
    ELSE EmptyDict

\* Variant: the finished observer is connected twice.
requestWrite_connectTwice(file_types, ufp_writer) ==
    LET file_type == SelectFileType(file_types) IN
    IF "mime_type" \notin DOMAIN file_type
    THEN [raised |-> "KeyError", calls |-> <<>>]
    ELSE IF UFPMIMETYPE # file_type.mime_type
    THEN [raised |-> "AssertionError", calls |-> <<>>]
    ELSE IF ufp_writer = "None"
    THEN [raised |-> "WriteRequestFailedError", calls |-> <<>>]
    ELSE [raised |-> "none",
          calls |-> <<"_createSnapshot", "CreateUfpAndPostJob",
                      "progress.connect", "finished.connect",
                      "finished.connect", "start">>]

\* Variant: the job is started before the observers are connected.
requestWrite_startFirst(file_types, ufp_writer) ==
    LET file_type == SelectFileType(file_types) IN
    IF "mime_type" \notin DOMAIN file_type
    THEN [raised |-> "KeyError", calls |-> <<>>]
    ELSE IF UFPMIMETYPE # file_type.mime_type
    THEN [raised |-> "AssertionError", calls |-> <<>>]
    ELSE IF ufp_writer = "None"
    THEN [raised |-> "WriteRequestFailedError", calls |-> <<>>]
    ELSE [raised |-> "none",
          calls |-> <<"_createSnapshot", "CreateUfpAndPostJob", "start",
                      "progress.connect", "finished.connect">>]

\* Variant: the writer is only tested after the snapshot was taken.
requestWrite_snapshotFirst(file_types, ufp_writer) ==
    LET file_type == SelectFileType(file_types) IN
    IF "mime_type" \notin DOMAIN file_type
    THEN [raised |-> "KeyError", calls |-> <<>>]
    ELSE IF UFPMIMETYPE # file_type.mime_type
    THEN [raised |-> "AssertionError", calls |-> <<>>]
    ELSE IF ufp_writer = "None"
    THEN [raised |-> "WriteRequestFailedError", calls |-> <<"_createSnapshot">>]
    ELSE [raised |-> "none",
          calls |-> <<"_createSnapshot", "CreateUfpAndPostJob",
                      "progress.connect", "finished.connect", "start">>]

\* The outcome of requestWrite: the exception it raises ("none" if it
\* returns) and the calls it has made on the writer and the job, in order.
requestWrite(file_types, ufp_writer) ==
    LET file_type == SelectFileType(file_types) IN
    IF "mime_type" \notin DOMAIN file_type
    THEN [raised |-> "KeyError", calls |-> <<>>]
    ELSE IF UFPMIMETYPE # file_type.mime_type
    THEN [raised |-> "AssertionError", calls |-> <<>>]
    ELSE IF ufp_writer = "None"
    THEN [raised |-> "WriteRequestFailedError", calls |-> <<>>]
    ELSE [raised |-> "none",
          calls |-> <<"_createSnapshot", "CreateUfpAndPostJob",
                      "progress.connect", "finished.connect", "start">>]

Count(calls, c) == Cardinality({i \in 1..Len(calls) : calls[i] = c})

NoJob ==
    [pc |-> "absent", result |-> "None", error |-> "None", writes |-> 0,
     posts |-> 0, progressObs |-> 0, finishedObs |-> 0, finishedCalls |-> 0,
     written |-> "None", postRaised |-> "none", propagated |-> "none",
     status |-> 0, text |-> "", stream |-> 0,
     posted |-> [url |-> "", file |-> [stem |-> "", ext |-> ""], stream |-> 0]]

\* The job objects a requestWrite call leaves behind: one per construction,
\* with the observers connected on it, queued if start() was called on it.
JobOf(calls) ==
    [NoJob EXCEPT !.pc = IF Count(calls, "start") > 0 THEN "queued" ELSE "constructed",
                  !.progressObs = Count(calls, "progress.connect"),
                  !.finishedObs = Count(calls, "finished.connect")]

FreeSlots == {j \in Jobs : jobs[j].pc = "absent"}

\* The user saves to the device: requestWrite runs to its return or raise.
CallRequestWrite(file_types, ufp_writer) ==
    /\ Count(requestWrite(file_types, ufp_writer).calls, "CreateUfpAndPostJob") > 0
         => FreeSlots # {}
    /\ LET r == requestWrite(file_types, ufp_writer) IN
         /\ rw' = [called |-> TRUE, types |-> Len(file_types),
                   hasUfp |-> HasUfp(file_types), ufp_writer |-> ufp_writer,
                   raised |-> r.raised, calls |-> r.calls]
         /\ IF Count(r.calls, "CreateUfpAndPostJob") > 0
            THEN /\ FreeSlots # {}
                 /\ LET j == CHOOSE j \in FreeSlots : \A k \in FreeSlots : j <= k IN
                      \* __init__: self._stream = BytesIO(), a buffer of the job's own
                      jobs' = [jobs EXCEPT ![j] = [JobOf(r.calls) EXCEPT !.stream = j]]
            ELSE jobs' = jobs
    /\ UNCHANGED <<watcherVars, threads>>

(* ---------------------------------------------------------------------- *)
(* CreateUfpAndPostJob.run, and the job queue worker that calls it        *)
(* ---------------------------------------------------------------------- *)
Truthy(result) == result = "True"

\* Variant: a falsy write result is stored without an error.
run_write_noError(job, written) ==
    [job EXCEPT !.pc = "written",
                !.writes = @ + 1,
                !.written = IF written THEN "True" ELSE "False",
                !.result = IF written THEN "True" ELSE "False"]

\* self.setResult(self._writer.write(self._stream, self._data))
\* if not self.getResult(): self.setError(self._writer.getInformation())
run_write(job, written) ==
    [job EXCEPT !.pc = "written",
                !.writes = @ + 1,
                !.written = IF written THEN "True" ELSE "False",
                !.result = IF written THEN "True" ELSE "False",
                !.error = IF written THEN @ ELSE WriterInformation]

\* Variant: a 201 answer stores a true result and clears the error.
run_post_resetsOn201(job, status_code, text) ==
    [job EXCEPT !.pc = "returned",
                !.posts = @ + 1,
                !.posted = [url |-> PostUrl, file |-> PostFile, stream |-> job.stream],
                !.status = status_code,
                !.text = text,
                !.result = IF HTTP_CREATED # status_code THEN "False" ELSE "True",
                !.error = IF HTTP_CREATED # status_code THEN text ELSE "None"]

\* Variant: the file field is named after another format.
run_post_otherFile(job, status_code, text) ==
    [job EXCEPT !.pc = "returned",
                !.posts = @ + 1,
                !.posted = [url |-> PostUrl, file |-> [stem |-> "foobar", ext |-> "gcode"],
                            stream |-> job.stream],
                !.status = status_code,
                !.text = text,
                !.result = IF HTTP_CREATED # status_code THEN "False" ELSE @,
                !.error = IF HTTP_CREATED # status_code THEN text ELSE @]

\* url = ...; data = {'title': ..., 'file': ('foobar.ufp', self._stream)}
\* resp = requests.post(url, files=data) has returned a response
\* if 201 != resp.status_code: self.setResult(False); self.setError(resp.text)
run_post(job, status_code, text) ==
    [job EXCEPT !.pc = "returned",
                !.posts = @ + 1,
                !.posted = [url |-> PostUrl, file |-> PostFile, stream |-> job.stream],
                !.status = status_code,
                !.text = text,
                !.result = IF HTTP_CREATED # status_code THEN "False" ELSE @,
                !.error = IF HTTP_CREATED # status_code THEN text ELSE @]

\* requests.post raises: run() has no handler, the exception leaves run()
run_post_raises(job, exc) ==
    [job EXCEPT !.pc = "raised",
                !.posts = @ + 1,
                !.posted = [url |-> PostUrl, file |-> PostFile, stream |-> job.stream],
                !.postRaised = exc,
                !.propagated = exc]

\* The worker thread takes the queued job and enters run().
RunBegin(j) ==
    /\ jobs[j].pc = "queued"
    /\ jobs' = [jobs EXCEPT ![j].pc = "running"]
    /\ UNCHANGED <<rw, watcherVars, threads>>

RunWrite(j, written) ==
    /\ jobs[j].pc = "running"
    /\ jobs' = [jobs EXCEPT ![j] = run_write(jobs[j], written)]
    /\ UNCHANGED <<rw, watcherVars, threads>>

RunPost(j, status_code, text) ==
    /\ jobs[j].pc = "written"
    /\ jobs' = [jobs EXCEPT ![j] = run_post(jobs[j], status_code, text)]
    /\ UNCHANGED <<rw, watcherVars, threads>>

RunPostRaises(j, exc) ==
    /\ jobs[j].pc = "written"
    /\ jobs' = [jobs EXCEPT ![j] = run_post_raises(jobs[j], exc)]
    /\ UNCHANGED <<rw, watcherVars, threads>>

\* The worker that called run() emits the job's finished signal once, after
\* run() has returned or raised; it may record the exception as the error.
WorkerFinish(j, recordsException) ==
    /\ jobs[j].pc \in {"returned", "raised"}
    /\ jobs' = [jobs EXCEPT ![j].pc = "done",
                            ![j].finishedCalls = @ + jobs[j].finishedObs,
                            ![j].error = IF jobs[j].pc = "raised" /\ recordsException
                                         THEN jobs[j].propagated ELSE @]
    /\ UNCHANGED <<rw, watcherVars, threads>>

\* The job's state as the job object shows it.
JobState(job) ==
    IF job.pc \in {"constructed", "queued"} THEN "Pending"
    ELSE IF job.pc \in {"running", "written", "returned", "raised"} THEN "Running"
    ELSE IF job.pc = "done"
    THEN IF Truthy(job.result) /\ job.error = "None" THEN "Succeeded" ELSE "Failed"
    ELSE "None"

\* The outcome a reader of getResult() and getError() sees on the job at
\* any moment: none before setResult, then success or failure.
Outcome(job) ==
    IF job.result = "None" THEN "none"
    ELSE IF Truthy(job.result) /\ job.error = "None" THEN "Succeeded"
    ELSE "Failed"


(* ---------------------------------------------------------------------- *)
(* The handler and stop() as the two threads execute them, statement by   *)
(* statement: the handler on the ServiceBrowser thread, stop() on the     *)
(* host's thread.  Neither takes a lock.                                  *)
(* ---------------------------------------------------------------------- *)
\* cb, st: where each thread stands and the flag value its test has read;
\* lastCall, doubled: the registry calls made by the handler and by stop();
\* ran: some invocation of the handler or of stop() has returned.
NoThreads ==
    [cb |-> [pc |-> "idle", state_change |-> "Updated", seen |-> FALSE],
     st |-> [pc |-> "idle", seen |-> FALSE],
     lastCall |-> "none", doubled |-> FALSE, ran |-> FALSE]

\* the registry receives a call from the handler or from stop()
Logged(t, call) ==
    [t EXCEPT !.doubled = @ \/ t.lastCall = call, !.lastCall = call]

\* line 46-47, 53: the browser thread enters the handler; only a matching
\* Added or Removed goes on to test the flag.
CbEnter(name, state_change) ==
    /\ zeroconf = "open"
    /\ threads.cb.pc = "idle"
    /\ threads' = IF name = IunoServiceName /\ state_change \in {"Added", "Removed"}
                  THEN [threads EXCEPT !.cb.pc = "test", !.cb.state_change = state_change]
                  ELSE [threads EXCEPT !.ran = TRUE]
    /\ UNCHANGED <<watcherVars, targetVars>>

\* line 48, 54: if (not) self.iunoAvailable
CbTest ==
    /\ threads.cb.pc = "test"
    /\ threads' = [threads EXCEPT
                      !.cb.seen = iunoAvailable,
                      !.cb.pc = IF (threads.cb.state_change = "Added") = (~iunoAvailable)
                                THEN "call" ELSE "set"]
    /\ UNCHANGED <<watcherVars, targetVars>>

\* line 49, 55: addOutputDevice / removeOutputDevice
CbCall ==
    /\ threads.cb.pc = "call"
    /\ IF threads.cb.state_change = "Added"
       THEN /\ registry' = addOutputDevice(registry, IunoDeviceId)
            /\ threads' = [Logged(threads, "add") EXCEPT !.cb.pc = "set"]
       ELSE /\ registry' = removeOutputDevice(registry, IunoDeviceId)
            /\ threads' = [Logged(threads, "remove") EXCEPT !.cb.pc = "set"]
    /\ UNCHANGED <<zeroconf, iunoAvailable, net, hist, targetVars>>

\* line 51, 57: self.iunoAvailable = True / False, and the handler returns
CbSet ==
    /\ threads.cb.pc = "set"
    /\ iunoAvailable' = (threads.cb.state_change = "Added")
    /\ net' = threads.cb.state_change
    /\ threads' = [threads EXCEPT !.cb.pc = "idle", !.ran = TRUE]
    /\ UNCHANGED <<zeroconf, registry, hist, targetVars>>

\* line 37: self.zeroconf.close() on a plugin that was started
StClose ==
    /\ zeroconf # "unset"
    /\ threads.st.pc = "idle"
    /\ zeroconf' = "closed"
    /\ threads' = [threads EXCEPT !.st.pc = "test"]
    /\ UNCHANGED <<iunoAvailable, registry, net, hist, targetVars>>

\* line 38: if self.iunoAvailable; stop() returns if it is not set
StTest ==
    /\ threads.st.pc = "test"
    /\ threads' = [threads EXCEPT
                      !.st.seen = iunoAvailable,
                      !.st.pc = IF iunoAvailable THEN "call" ELSE "idle",
                      !.ran = IF iunoAvailable THEN @ ELSE TRUE]
    /\ UNCHANGED <<watcherVars, targetVars>>

\* line 39: removeOutputDevice, and stop() returns
StCall ==
    /\ threads.st.pc = "call"
    /\ registry' = removeOutputDevice(registry, IunoDeviceId)
    /\ threads' = [Logged(threads, "remove") EXCEPT !.st.pc = "idle", !.ran = TRUE]
    /\ UNCHANGED <<zeroconf, iunoAvailable, net, hist, targetVars>>

\* The host starts the plugin while it is not inside stop().
StStart ==
    /\ threads.st.pc = "idle"
    /\ CallStart

ConcurrentNext ==
    \/ StStart
    \/ \E name \in ServiceNames, state_change \in ServiceStateChange :
          CbEnter(name, state_change)
    \/ CbTest
    \/ CbCall
    \/ CbSet
    \/ StClose
    \/ StTest
    \/ StCall

(* ---------------------------------------------------------------------- *)
(* Specifications                                                         *)
(* ---------------------------------------------------------------------- *)
Init ==
    /\ zeroconf = "unset"
    /\ iunoAvailable = FALSE
    /\ registry = {}
    /\ net = "none"
    /\ hist = <<>>
    /\ jobs = [j \in Jobs |-> NoJob]
    /\ rw = [called |-> FALSE, types |-> 0, hasUfp |-> FALSE, ufp_writer |-> "None",
             raised |-> "none", calls |-> <<>>]
    /\ threads = NoThreads

WatcherNext ==
    \/ CallStart
    \/ CallStop
    \/ \E name \in ServiceNames, state_change \in ServiceStateChange :
          DeliverServiceStateChange(name, state_change)

JobStep(j) ==
    \/ RunBegin(j)
    \/ \E written \in BOOLEAN : RunWrite(j, written)
    \/ \E status_code \in StatusCodes, text \in ResponseTexts : RunPost(j, status_code, text)
    \/ \E exc \in TransportErrors : RunPostRaises(j, exc)
    \/ \E recordsException \in BOOLEAN : WorkerFinish(j, recordsException)

TargetNext ==
    \/ \E file_types \in FileTypeLists, ufp_writer \in Writers :
          CallRequestWrite(file_types, ufp_writer)
    \/ \E j \in Jobs : JobStep(j)

\* The plugin alone: start, stop and the discovery callbacks.
WatcherSpec == Init /\ [][WatcherNext]_vars

\* The output device alone: write requests and the jobs they start.
TargetSpec == Init /\ [][TargetNext]_vars

\* The jobs under a fair worker: a queued job is run, a pending POST ends.
FairTargetSpec == TargetSpec /\ \A j \in Jobs : WF_vars(JobStep(j))

\* The plugin with the handler and stop() interleaved statement by statement.
ConcurrentSpec == Init /\ [][ConcurrentNext]_vars

Next == WatcherNext \/ TargetNext

Spec == Init /\ [][Next]_vars

(* ---------------------------------------------------------------------- *)
(* Properties of the plugin (WatcherSpec)                                 *)
(* ---------------------------------------------------------------------- *)
\* the n-th latest plugin call (1 = the latest); only used where it exists
Nth(n) == hist[Len(hist) + 1 - n]
Matching(e, state_change) == e.op = state_change /\ e.name = IunoServiceName

\* C1: while the session is open the registry holds at most one entry for
\* IunoProductionManager, and it holds it exactly if the last matching
\* Added/Removed handled since start() was an Added (absent before any Added
\* and after a Removed, present after an Added).
C1_RegistryMatchesNetState ==
    zeroconf = "open" =>
        /\ Cardinality(registry) <= 1
        /\ (IunoDeviceId \in registry <=> net = "Added")

\* C2: a matching Added handled while the flag is already true, and a
\* matching Removed handled while the flag is false, make no registry call,
\* raise nothing and leave the flag and the registry as they were.
C2_DuplicateDeliveryIsIdempotent ==
    (/\ Len(hist) >= 1
     /\ \/ Matching(Nth(1), "Added") /\ Nth(1).availBefore
        \/ Matching(Nth(1), "Removed") /\ ~Nth(1).availBefore)
    => /\ Nth(1).calls = <<>>
       /\ Nth(1).raised = "none"
       /\ iunoAvailable = Nth(1).availBefore
       /\ registry = Nth(1).regBefore

\* C2 witness: a duplicate Added was handled and, two calls later, a
\* duplicate Removed.
C2_Witness ==
    /\ Len(hist) >= 3
    /\ Matching(Nth(3), "Added") /\ Nth(3).availBefore
    /\ Matching(Nth(1), "Removed") /\ ~Nth(1).availBefore

\* C3: right after start(), handling Added for the IUNO service name leaves
\* exactly the entry IunoProductionManager in the registry, and handling a
\* Removed for that name right after leaves the registry empty.
C3_AddedThenRemoved ==
    /\ (/\ Len(hist) >= 2
        /\ Nth(2).op = "start"
        /\ Matching(Nth(1), "Added"))
       => registry = {IunoDeviceId}
    /\ (/\ Len(hist) >= 3
        /\ Nth(3).op = "start"
        /\ Matching(Nth(2), "Added")
        /\ Matching(Nth(1), "Removed"))
       => registry = {}

\* C3 witness: start(), then the matching Added, then the matching Removed.
C3_Witness ==
    /\ Len(hist) >= 3
    /\ Nth(3).op = "start"
    /\ Matching(Nth(2), "Added")
    /\ Matching(Nth(1), "Removed")
    /\ registry = {}

\* C4: no call of stop() raises, whether start() was called before or not,
\* and whether stop() was called before or not.
C4_StopNeverRaises ==
    \A i \in 1..Len(hist) : hist[i].op = "stop" => hist[i].raised = "none"

\* C5: once stop() has returned on a started plugin the registry holds no
\* entry for IunoProductionManager, and a stop() that follows a stop() makes
\* no registry call.
C5_StopLeavesNoRegistration ==
    (Len(hist) >= 1 /\ Nth(1).op = "stop" /\ Nth(1).raised = "none")
    => /\ IunoDeviceId \notin registry
       /\ (Len(hist) >= 2 /\ Nth(2).op = "stop") => Nth(1).calls = <<>>

(* ---------------------------------------------------------------------- *)
(* Properties of the output device and its jobs (TargetSpec)              *)
(* ---------------------------------------------------------------------- *)
\* The failure requestWrite announces when no file type has the UFP mime
\* type: the assertion "File Writer for application/x-ufp not found!".
ConfigurationError == "AssertionError"

Finished(job) == job.pc = "done"

\* C6: a requestWrite whose file type list has no application/x-ufp entry
\* (the empty list included) raises the configuration error, prepares no
\* snapshot and constructs and starts no job.
C6_NoSerializerIsConfigurationError ==
    (rw.called /\ ~rw.hasUfp)
    => /\ rw.raised = ConfigurationError
       /\ rw.calls = <<>>

\* C7: a finished job whose writer returned a falsy result is Failed, has a
\* non-empty error text whatever the endpoint answered, and its completion
\* observer was called exactly once.
C7_NoOutputEndsFailed ==
    \A j \in Jobs :
        (Finished(jobs[j]) /\ jobs[j].written = "False")
        => /\ JobState(jobs[j]) = "Failed"
           /\ jobs[j].error \notin {"None", ""}
           /\ jobs[j].finishedCalls = 1

\* C8: a finished job whose POST got a response is Succeeded if the status
\* was 201, and otherwise Failed with the response text as its error.
C8_StatusDecidesOutcome ==
    \A j \in Jobs :
        (Finished(jobs[j]) /\ jobs[j].posts > 0 /\ jobs[j].postRaised = "none")
        => IF jobs[j].status = HTTP_CREATED
           THEN JobState(jobs[j]) = "Succeeded"
           ELSE JobState(jobs[j]) = "Failed" /\ jobs[j].error = jobs[j].text

\* C9: no exception raised by the POST leaves run(), and a finished job
\* whose POST raised is Failed with a non-empty error text.
C9_TransportErrorIsCaught ==
    \A j \in Jobs :
        /\ jobs[j].propagated = "none"
        /\ (Finished(jobs[j]) /\ jobs[j].postRaised # "none")
           => /\ JobState(jobs[j]) = "Failed"
              /\ jobs[j].error \notin {"None", ""}

StateMoves ==
    {<<"None", "Pending">>, <<"Pending", "Running">>,
     <<"Running", "Succeeded">>, <<"Running", "Failed">>}

\* a step changes a job's state only along a move, and changes nothing of a
\* finished job
LifecycleStep(j) ==
    /\ \/ JobState(jobs'[j]) = JobState(jobs[j])
       \/ <<JobState(jobs[j]), JobState(jobs'[j])>> \in StateMoves
    /\ Finished(jobs[j]) => jobs'[j] = jobs[j]

\* C11: a job's state only moves Pending -> Running -> Succeeded or Failed,
\* nothing changes once it is terminal, and the outcome seen on the job is
\* never Succeeded at one moment and Failed at a later one.
C11_StateMovesForwardOutcomeStable ==
    [][\A j \in Jobs :
          /\ LifecycleStep(j)
          /\ ~(Outcome(jobs[j]) = "Succeeded" /\ Outcome(jobs'[j]) = "Failed")]_vars

\* C11 as amended: a job's state only moves Pending -> Running -> Succeeded
\* or Failed, nothing changes once it is terminal, and the outcome seen on
\* the job is never Failed at one moment and Succeeded at a later one (it
\* may go from Succeeded after the write to Failed after the upload).
C11_StateMovesForwardNoRecovery ==
    [][\A j \in Jobs :
          /\ LifecycleStep(j)
          /\ ~(Outcome(jobs[j]) = "Failed" /\ Outcome(jobs'[j]) = "Succeeded")]_vars

\* C11 witness: a finished job whose write succeeded and whose POST was
\* answered with another status than 201.
C11_Witness ==
    \E j \in Jobs :
        /\ Finished(jobs[j])
        /\ jobs[j].written = "True"
        /\ jobs[j].status \in StatusCodes \ {HTTP_CREATED}
        /\ JobState(jobs[j]) = "Failed"

\* C12: a finished job has an error set exactly if its state is Failed,
\* whatever the write returned and however the POST ended.
C12_ErrorIffFailed ==
    \A j \in Jobs :
        Finished(jobs[j])
        => (jobs[j].error # "None" <=> JobState(jobs[j]) = "Failed")

\* C12 witness: a finished job whose write failed and whose POST was
\* answered 201: Failed, with the writer's information as its error.
C12_Witness ==
    \E j \in Jobs :
        /\ Finished(jobs[j])
        /\ jobs[j].written = "False"
        /\ jobs[j].status = HTTP_CREATED
        /\ JobState(jobs[j]) = "Failed"
        /\ jobs[j].error = WriterInformation

\* C14: from start() onward the registry holds IunoProductionManager
\* exactly if iunoAvailable is true, and start() itself makes no registry
\* call.
C14_RegisteredIffAvailable ==
    /\ zeroconf # "unset" => (IunoDeviceId \in registry <=> iunoAvailable)
    /\ \A i \in 1..Len(hist) : hist[i].op = "start" => hist[i].calls = <<>>

\* C15: a job whose write returned a falsy result sends no POST, and a job
\* that ends Succeeded has sent one.
C15_NoPostWithoutOutput ==
    \A j \in Jobs :
        /\ jobs[j].written = "False" => jobs[j].posts = 0
        /\ JobState(jobs[j]) = "Succeeded" => jobs[j].posts > 0

(* ---------------------------------------------------------------------- *)
(* Properties of the interleaved handler and stop() (ConcurrentSpec)      *)
(* ---------------------------------------------------------------------- *)
\* C16: under every interleaving of the handler's and stop()'s flag test,
\* registry call and flag write, the registry never receives two adds with
\* no remove in between nor two removes with no add in between, and once
\* every invocation has returned it holds the device exactly if the flag is
\* true.
C16_InterleavingsKeepRegistryInStep ==
    /\ ~threads.doubled
    /\ (threads.ran /\ threads.cb.pc = "idle" /\ threads.st.pc = "idle")
       => (IunoDeviceId \in registry <=> iunoAvailable)

(* ---------------------------------------------------------------------- *)
(* Further properties of requestWrite, run() and the handler              *)
(* ---------------------------------------------------------------------- *)
\* C17: a requestWrite that finds the UFP file type and its writer makes,
\* in this order and once each, the snapshot preparation, the construction
\* of one job, the connection of the progress and of the completion
\* observer, and the job's start; and when it returns the job it has
\* created is still Pending.
C17_RequestWriteOrder ==
    /\ []((rw.called /\ rw.hasUfp /\ rw.ufp_writer # "None")
          => /\ rw.raised = "none"
             /\ rw.calls = <<"_createSnapshot", "CreateUfpAndPostJob",
                             "progress.connect", "finished.connect", "start">>)
    /\ [][\A j \in Jobs :
             (jobs[j].pc = "absent" /\ jobs'[j].pc # "absent")
             => /\ jobs'[j].pc = "queued"
                /\ JobState(jobs'[j]) = "Pending"
                /\ jobs'[j].progressObs = 1
                /\ jobs'[j].finishedObs = 1
                /\ rw'.raised = "none"]_vars

\* C17 witness: requestWrite has returned and its job is queued, not run.
C17_Witness ==
    /\ rw.called /\ rw.hasUfp /\ rw.ufp_writer # "None" /\ rw.raised = "none"
    /\ \E j \in Jobs : jobs[j].pc = "queued"

\* C18: in every run the writer's write is called once and before any POST,
\* at most one POST is sent, and the POST goes to the configured URL with a
\* file field named *.ufp that carries the job's own buffer.
C18_OneWriteThenOnePost ==
    \A j \in Jobs :
        /\ jobs[j].writes <= 1
        /\ jobs[j].posts <= 1
        /\ jobs[j].pc \in {"written", "returned", "raised", "done"} => jobs[j].writes = 1
        /\ jobs[j].posts > 0
           => /\ jobs[j].writes = 1
              /\ jobs[j].posted.url = PostUrl
              /\ jobs[j].posted.file.ext = "ufp"
              /\ jobs[j].posted.stream = j

\* C18 witness: a finished job with one write and one answered POST.
C18_Witness ==
    \E j \in Jobs :
        /\ Finished(jobs[j])
        /\ jobs[j].writes = 1
        /\ jobs[j].posts = 1
        /\ jobs[j].status \in StatusCodes
        /\ jobs[j].posted.stream = j

\* C19: handling an Updated event, or an event for another name than the
\* IUNO service name, makes no registry call and leaves the flag and the
\* registry as they were.
C19_OtherEventsAreNoOps ==
    (/\ Len(hist) >= 1
     /\ Nth(1).op \in ServiceStateChange
     /\ (Nth(1).op = "Updated" \/ Nth(1).name # IunoServiceName))
    => /\ Nth(1).calls = <<>>
       /\ iunoAvailable = Nth(1).availBefore
       /\ registry = Nth(1).regBefore

\* C19 witness: an Updated for the IUNO name was handled while the flag
\* was set, then an Added for another name, then a Removed for another name.
C19_Witness ==
    /\ Len(hist) >= 3
    /\ Matching(Nth(3), "Updated") /\ Nth(3).availBefore
    /\ Nth(2).op = "Added" /\ Nth(2).name # IunoServiceName
    /\ Nth(1).op = "Removed" /\ Nth(1).name # IunoServiceName
    /\ iunoAvailable /\ IunoDeviceId \in registry

\* C20: a requestWrite that finds the UFP file type but gets no writer for
\* it raises WriteRequestFailedError before any snapshot preparation and
\* constructs and starts no job.
C20_NoWriterIsWriteRequestFailed ==
    /\ []((rw.called /\ rw.hasUfp /\ rw.ufp_writer = "None")
          => /\ rw.raised = "WriteRequestFailedError"
             /\ rw.calls = <<>>)
    /\ [][\A j \in Jobs :
             (jobs[j].pc = "absent" /\ jobs'[j].pc # "absent")
             => rw'.ufp_writer # "None"]_vars

\* C20 witness: such a call was made while a job slot was free.
C20_Witness ==
    /\ rw.called /\ rw.hasUfp /\ rw.ufp_writer = "None"
    /\ rw.raised = "WriteRequestFailedError"
    /\ FreeSlots # {}

====
